---- MODULE Spec2Model ----
(***************************************************************************)
(* Model of src/main.py: the chunked CSV reader (Reader.get_data_chunk),   *)
(* the filtered bulk insert (DB.write_data under db_validator), the table  *)
(* clear (DB.clear_all) and the main loop that drives them.                *)
(*                                                                         *)
(* Encoding.  An optional value (Python None, a pandas NaN cell, an SQL    *)
(* NULL) is the empty sequence; a present value v is <<v>>.  The table     *)
(* gg_awards is the sequence of its rows in insertion order.  The string   *)
(* given to --year is the sequence of its decimal digits.                  *)
(***************************************************************************)
EXTENDS Integers, Sequences, FiniteSets, TLC

VARIABLES
    argClear,    \* args.clear given (line 40)
    argWinner,   \* args.winner given (line 42)
    argYear,     \* args.year: digits of the --year value, <<>> when absent
    file,        \* the records of golden_globe_awards.csv, in file order
    size,        \* the chunksize handed to get_data_chunk
    table,       \* gg_awards
    pc,          \* "start", "loop", "done", "aborted" (exception left __main__)
    pos,         \* number of records the reader has consumed
    batches,     \* the chunks yielded so far in this run, in yield order
    run,         \* 1: first invocation of the script, 2: second invocation
    table0,      \* history: gg_awards before the first invocation
    base,        \* history: gg_awards when the main loop of this run was entered
    prevTable,   \* history: gg_awards just before the last write_data call
    lastResult,  \* history: outcome of the last write_data call
    nclears      \* history: number of clear_all calls in this run

vars == <<argClear, argWinner, argYear, file, size, table, pc, pos, batches,
          run, table0, base, prevTable, lastResult, nclears>>

----------------------------------------------------------------------------
(* Bounds of the model *)

MaxLen == 2        \* longest source file of the pipeline specification
MaxRows == 5       \* longest source file of the reader specification
MaxSize == 3       \* largest chunk size of the reader specification

----------------------------------------------------------------------------
(* Values *)

None == <<>>
NaN == <<>>
Val(v) == <<v>>

Min(a, b) == IF a < b THEN a ELSE b

AwardYears == {1995, 1996}

\* One parsed CSV line: year_award (integer), win (boolean), film (may be missing).
Records == [year_award : {Val(y) : y \in AwardYears},
            win : BOOLEAN,
            film : {NaN, Val(0)}]

SeqsUpTo(S, n) == UNION {[1..k -> S] : k \in 0..n}

\* int(args.year), line 47
RECURSIVE IntOf(_)
IntOf(digits) ==
    IF digits = <<>> THEN 0
    ELSE 10 * IntOf(SubSeq(digits, 1, Len(digits) - 1)) + digits[Len(digits)]

\* year = int(args.year) if args.year else None
year == IF argYear # <<>> THEN Val(IntOf(argYear)) ELSE None

\* Python truth value of an optional integer: None and 0 are falsy.
Truthy(x) == x # None /\ x[1] # 0

----------------------------------------------------------------------------
(* Reader.get_data_chunk *)

\* The reader has another chunk: records are left, or nothing was yielded yet
\* (read_csv yields one empty frame for a file that holds only its header).
HasChunk(f, p, yielded) == p < Len(f) \/ yielded = 0

\* Mutant of GetDataChunk: the chunk boundary is off by one.
GetDataChunkOffByOne(f, s, p) == SubSeq(f, p + 1, Min(p + s + 1, Len(f)))

\* The next chunk: at most s records from position p on.
GetDataChunk(f, s, p) == SubSeq(f, p + 1, Min(p + s, Len(f)))

----------------------------------------------------------------------------
(* DB.write_data *)

\* df_chunk[df_chunk["win"]]
WinnersOnly(chunk) == SelectSeq(chunk, LAMBDA r : r.win)

\* df_chunk[df_chunk["year_award"] == year_award]; NaN equals nothing.
YearEquals(chunk, y) ==
    SelectSeq(chunk, LAMBDA r : r.year_award # NaN /\ r.year_award = y)

\* The test that guards the year filter: "if year_award:".
YearFilterOn(year_award) == Truthy(year_award)

\* Lines 97-100: the retained records of a chunk.
Retained(chunk, year_award, winners_only) ==
    LET c1 == IF winners_only THEN WinnersOnly(chunk) ELSE chunk
    IN IF YearFilterOn(year_award) THEN YearEquals(c1, year_award) ELSE c1

\* Mutant of Fillna: the missing cells are left as they are.
FillnaSkipped(r) == r

\* df_chunk.fillna(0): every missing cell becomes 0.
FillCell(x) == IF x = NaN THEN Val(0) ELSE x
Fillna(r) == [year_award |-> FillCell(r.year_award),
              win |-> r.win,
              film |-> FillCell(r.film)]
FillnaAll(chunk) == [i \in 1..Len(chunk) |-> Fillna(chunk[i])]

\* SQL equality inside a UNIQUE constraint: NULL is distinct from everything.
SqlEq(x, y) == x # NaN /\ y # NaN /\ x = y
KeyEq(a, b) ==
    /\ SqlEq(a.year_award, b.year_award)
    /\ a.win = b.win
    /\ SqlEq(a.film, b.film)
Conflicts(tbl, row) == \E i \in 1..Len(tbl) : KeyEq(tbl[i], row)

\* Mutant of InsertRow: the table has no uniqueness constraint.
InsertRowUnconstrained(tbl, row) == Append(tbl, row)

\* One INSERT under UNIQUE ... ON CONFLICT IGNORE: a conflicting row is skipped.
InsertRow(tbl, row) == IF Conflicts(tbl, row) THEN tbl ELSE Append(tbl, row)

\* The rows are inserted one after the other (executemany).
RECURSIVE InsertMany(_, _)
InsertMany(tbl, rows) ==
    IF rows = <<>> THEN tbl
    ELSE InsertMany(InsertRow(tbl, Head(rows)), Tail(rows))

\* Mutant of ToSql: a chunk with a conflicting row is dropped as a whole.
ToSqlAllOrNothing(tbl, rows) ==
    IF \E i \in 1..Len(rows) : Conflicts(InsertMany(tbl, SubSeq(rows, 1, i - 1)), rows[i])
    THEN tbl
    ELSE InsertMany(tbl, rows)

\* to_sql(name="gg_awards", if_exists="append"): the bulk insert of a chunk.
ToSql(tbl, rows) == InsertMany(tbl, rows)

\* Under ON CONFLICT IGNORE a conflicting row never makes the insert raise.
UniqueViolation(tbl, rows) == FALSE

\* Mutant of Rollback: the rows inserted before the error stay.
RollbackNothing(before, partial) == partial

\* "with self.conn:" leaving by an exception: the transaction is rolled back.
Rollback(before, partial) == before

\* "with self.conn:" leaving normally: the transaction is committed.
Commit(before, after) == after

\* Lines 96-114 when nothing raises: the table after write_data(chunk, ...).
WriteResult(tbl, chunk, year_award, winners_only) ==
    LET rows == Retained(chunk, year_award, winners_only)
    IN IF rows # <<>> THEN Commit(tbl, ToSql(tbl, FillnaAll(rows))) ELSE tbl

\* The chunk the loop works on and what write_data retains of it.
CurChunk == GetDataChunk(file, size, pos)
CurRows == Retained(CurChunk, year, argWinner)

\* The for loop after a chunk is done: the next chunk, or the end of the script.
AfterChunk == IF HasChunk(file, pos + Len(CurChunk), Len(batches) + 1)
              THEN "loop" ELSE "done"

\* Mutant of AfterError: the wrapper swallows the error and the loop goes on.
AfterErrorSwallowed == AfterChunk

\* db_validator, lines 77-79: the error is logged and raised again; nothing
\* in __main__ catches it.
AfterError == "aborted"

\* The main loop as a function: the table after all chunks of f from record
\* p on were written with chunk size s and nothing raised.
RECURSIVE IngestFrom(_, _, _, _)
IngestFrom(tbl, f, s, p) ==
    IF p >= Len(f) THEN tbl
    ELSE IngestFrom(WriteResult(tbl, GetDataChunk(f, s, p), year, argWinner),
                    f, s, p + s)

----------------------------------------------------------------------------
(* Initial states *)

\* A table this program has written: rows without NULL, no two with one key.
NormalRows == {r \in Records : r.year_award # NaN /\ r.film # NaN}
InitTables == {<<>>} \cup {<<r>> : r \in NormalRows}

YearArgs == {<<>>, <<0>>, <<1, 9, 9, 5>>}

InitCommon ==
    /\ pc = "start"
    /\ pos = 0
    /\ batches = <<>>
    /\ run = 1
    /\ table0 = table
    /\ base = table
    /\ prevTable = table
    /\ lastResult = "none"
    /\ nclears = 0

\* The records of the reader specification: two records that differ, so that
\* the order of a file shows.
ReaderRecords == {r \in Records : r.year_award = Val(1995) /\ r.film = Val(0)}

InitReader ==
    /\ argClear \in BOOLEAN
    /\ argWinner \in BOOLEAN
    /\ argYear = <<>>
    /\ file \in SeqsUpTo(ReaderRecords, MaxRows)
    /\ size \in 1..MaxSize
    /\ table = <<>>
    /\ InitCommon

Init ==
    /\ argClear \in BOOLEAN
    /\ argWinner \in BOOLEAN
    /\ argYear \in YearArgs
    /\ file \in SeqsUpTo(Records, MaxLen)
    /\ size \in 1..MaxLen
    /\ table \in InitTables
    /\ InitCommon

----------------------------------------------------------------------------
(* Actions *)

\* Lines 150-151: args.clear is set, clear_all deletes every row.
ClearAll ==
    /\ pc = "start"
    /\ argClear
    /\ table' = <<>>
    /\ base' = <<>>
    /\ nclears' = nclears + 1
    /\ pc' = "loop"
    /\ UNCHANGED <<argClear, argWinner, argYear, file, size, pos, batches, run,
                   table0, prevTable, lastResult>>

\* Line 150: args.clear is not set, the loop is entered directly.
SkipClear ==
    /\ pc = "start"
    /\ ~argClear
    /\ base' = table
    /\ pc' = "loop"
    /\ UNCHANGED <<argClear, argWinner, argYear, file, size, table, pos, batches,
                   run, table0, prevTable, lastResult, nclears>>

\* Lines 152-153 with 94-114: the next chunk is read and written; the insert
\* succeeds or there is nothing to insert.
WriteData ==
    /\ pc = "loop"
    /\ HasChunk(file, pos, Len(batches))
    /\ batches' = Append(batches, CurChunk)
    /\ pos' = pos + Len(CurChunk)
    /\ prevTable' = table
    /\ ~UniqueViolation(table, FillnaAll(CurRows))
    /\ table' = WriteResult(table, CurChunk, year, argWinner)
    /\ lastResult' = IF CurRows # <<>> THEN "written" ELSE "empty"
    /\ pc' = AfterChunk
    /\ UNCHANGED <<argClear, argWinner, argYear, file, size, run, table0, base,
                   nclears>>

\* Lines 152-153 with 73-82 and 94-114: the insert raises sqlite3.DatabaseError
\* after k rows of the chunk went in; the transaction is rolled back and
\* db_validator raises the error again, which leaves the main loop.
WriteDataError ==
    /\ pc = "loop"
    /\ HasChunk(file, pos, Len(batches))
    /\ CurRows # <<>>
    /\ \E k \in 0..(Len(CurRows) - 1) :
          table' = Rollback(table, ToSql(table, SubSeq(FillnaAll(CurRows), 1, k)))
    /\ batches' = Append(batches, CurChunk)
    /\ pos' = pos + Len(CurChunk)
    /\ prevTable' = table
    /\ lastResult' = "error"
    /\ pc' = AfterError
    /\ UNCHANGED <<argClear, argWinner, argYear, file, size, run, table0, base,
                   nclears>>

\* The script is started again on the same file with the same filters and
\* without --clear.
Rerun ==
    /\ pc = "done"
    /\ run = 1
    /\ run' = 2
    /\ argClear' = FALSE
    /\ pc' = "start"
    /\ pos' = 0
    /\ batches' = <<>>
    /\ nclears' = 0
    /\ lastResult' = "none"
    /\ prevTable' = table
    /\ base' = table
    /\ UNCHANGED <<argWinner, argYear, file, size, table, table0>>

Next == ClearAll \/ SkipClear \/ WriteData \/ WriteDataError \/ Rerun

Spec == Init /\ [][Next]_vars

\* The reader alone: long files over two records, every chunk size up to MaxSize.
SpecReader == InitReader /\ [][Next]_vars

----------------------------------------------------------------------------
(* Vocabulary of the properties *)

Range(s) == {s[i] : i \in 1..Len(s)}

RECURSIVE Concat(_)
Concat(ss) == IF ss = <<>> THEN <<>> ELSE Head(ss) \o Concat(Tail(ss))

Ceil(a, b) == (a + b - 1) \div b

\* The rows this run has added to gg_awards.
Inserted == SubSeq(table, Len(base) + 1, Len(table))

\* A year was supplied on the command line.
YearGiven == argYear # <<>>

\* The record satisfies the filters the command line asks for.
Passes(r) ==
    /\ argWinner => r.win
    /\ YearGiven => r.year_award = year

\* A record with every missing field replaced by an explicit 0.
ZeroFilled(r) == [year_award |-> IF r.year_award = NaN THEN Val(0) ELSE r.year_award,
                  win |-> r.win,
                  film |-> IF r.film = NaN THEN Val(0) ELSE r.film]

\* The source records that pass the requested filters, as rows.
PassingRows == {ZeroFilled(file[i]) : i \in {j \in 1..Len(file) : Passes(file[j])}}

NoTwoRowsEqual(tbl) == \A i, j \in 1..Len(tbl) : i # j => tbl[i] # tbl[j]

\* The chunks whose write_data call returned normally.
Committed == IF lastResult = "error" THEN SubSeq(batches, 1, Len(batches) - 1)
             ELSE batches

\* The table after the given chunks were written one after the other.
RECURSIVE WriteAll(_, _)
WriteAll(tbl, bs) ==
    IF bs = <<>> THEN tbl
    ELSE WriteAll(WriteResult(tbl, Head(bs), year, argWinner), Tail(bs))

----------------------------------------------------------------------------
(* C1 *)

\* C1: when the main loop has pushed all batches through write_data, the rows
\* added to gg_awards are exactly the source records that satisfy the
\* requested filters (winners only, year equal to the supplied integer), minus
\* those whose key collides with a row already present, each added once.
C1_RowsAdded ==
    pc = "done" =>
        /\ Range(Inserted) = {n \in PassingRows : ~Conflicts(base, n)}
        /\ Len(Inserted) = Cardinality(Range(Inserted))

----------------------------------------------------------------------------
(* C2 *)

\* C2: a second run of the whole ingest without clear, on the table left by
\* the first, never raises a uniqueness violation and inserts no row: the
\* table stays identical to the table after the first run.
C2_Idempotent ==
    run = 2 =>
        /\ table = base
        /\ pc = "loop" => ~UniqueViolation(table, FillnaAll(CurRows))
        /\ pc = "aborted" => lastResult = "error"

\* The second run is complete and its last chunk held rows to insert.
C2_Witness ==
    /\ run = 2
    /\ pc = "done"
    /\ lastResult = "written"
    /\ Len(table) > Len(table0)
    /\ \E i \in 1..Len(file) : file[i].film = NaN

----------------------------------------------------------------------------
(* C3 *)

\* C3: for a fixed file, fixed filters and a fixed initial table, a completed
\* ingest with any batch size leaves the same table as the ingest with batch
\* size 1, duplicates inside the file and rows already in the table included.
C3_BatchSizeInvariant ==
    pc = "done" => table = IngestFrom(base, file, 1, 0)

\* One batch held two records with the same key, one of them already in the
\* table before the run.
C3_Witness ==
    /\ pc = "done"
    /\ run = 1
    /\ size >= 2
    /\ Len(batches) = 1
    /\ Len(file) = 2
    /\ file[1] # file[2]
    /\ ZeroFilled(file[1]) = ZeroFilled(file[2])
    /\ Retained(file, year, argWinner) = file
    /\ base # <<>>
    /\ Inserted = <<>>

----------------------------------------------------------------------------
(* C4 *)

\* C4: whenever a year is supplied on the command line, every row inserted
\* during the run has year_award equal to that year.
C4_YearFilter ==
    YearGiven => \A i \in 1..Len(Inserted) : Inserted[i].year_award = year

----------------------------------------------------------------------------
(* C5 *)

\* C5: with winners_only set no row with win = FALSE is ever inserted, and
\* with a year supplied as well the candidates for insertion of a chunk are
\* exactly its records with win = TRUE and year_award equal to that year.
C5_WinnersOnly ==
    argWinner =>
        /\ \A i \in 1..Len(Inserted) : Inserted[i].win
        /\ (YearGiven /\ pc = "loop") =>
              CurRows = SelectSeq(CurChunk,
                                  LAMBDA r : r.win /\ r.year_award = year)

----------------------------------------------------------------------------
(* C6 *)

----------------------------------------------------------------------------
(* C7 *)

\* C7: with --clear, clear_all runs exactly once and before the first
\* write_data call, and after the run gg_awards holds exactly one row per
\* distinct key among the source records passing the requested filters, and
\* no row from before the clear that the source does not contain.
C7_ClearThenIngest ==
    (run = 1 /\ argClear) =>
        /\ pc = "start" => (nclears = 0 /\ batches = <<>>)
        /\ pc # "start" => nclears = 1
        /\ pc = "done" =>
              /\ NoTwoRowsEqual(table)
              /\ Range(table) = PassingRows

----------------------------------------------------------------------------
(* C8 *)

\* C8: every row written by write_data has 0 and never NULL where the record
\* had a missing field, and a record with a missing field is stored as the
\* row with an explicit 0 there, once: it is a duplicate of an equal record
\* with the explicit 0, in the table or earlier in the source.
C8_NullNormalized ==
    /\ \A i \in 1..Len(Inserted) :
          Inserted[i].film # NaN /\ Inserted[i].year_award # NaN
    /\ NoTwoRowsEqual(table)
    /\ \A k \in 1..Len(Committed) :
          \A r \in Range(Retained(Committed[k], year, argWinner)) :
              ZeroFilled(r) \in Range(table)

\* A record with an explicit 0 was followed by its copy with the field
\* missing; one row came of the two.
C8_Witness ==
    /\ pc = "done"
    /\ run = 1
    /\ Len(file) = 2
    /\ file[1].film = Val(0)
    /\ file[2] = [file[1] EXCEPT !.film = NaN]
    /\ Retained(file, year, argWinner) = file
    /\ Len(Inserted) = 1

----------------------------------------------------------------------------
(* C9 *)

\* The batches yielded so far cover the file from its start, in order, each
\* but the latest of exactly `size` records and the latest of 1..size; the
\* loop goes on only while records are left and ends after ceil(R/s) batches.
PartitionOfFile ==
    /\ Concat(batches) = SubSeq(file, 1, pos)
    /\ \A i \in 1..Len(batches) :
          /\ Len(batches[i]) \in 1..size
          /\ i < Len(batches) => Len(batches[i]) = size
    /\ Len(batches) <= Ceil(Len(file), size)
    /\ pc = "loop" => pos < Len(file)
    /\ pc = "done" => (pos = Len(file) /\ Len(batches) = Ceil(Len(file), size))

\* C9 as stated: for every file of R records and every batch size s the
\* batches given to write_data partition the file in order, all of s records
\* but the last of 1..s, and the loop ends after ceil(R/s) batches.
C9_PartitionAnyFile == PartitionOfFile

\* C9 as the code has it: the same for every file of R >= 1 records; a file
\* without records yields one empty batch, write_data is called once with it
\* and the loop ends.
C9_Partition ==
    /\ file # <<>> => PartitionOfFile
    /\ file = <<>> =>
          /\ batches \in {<<>>, << <<>> >>}
          /\ pc \in {"done", "aborted"} => batches = << <<>> >>

\* Five records in chunks of two: batches of 2, 2 and 1, then the end.
C9_Witness ==
    /\ pc = "done"
    /\ Len(file) = 5
    /\ size = 2
    /\ Len(batches) = 3
    /\ Len(batches[1]) = 2
    /\ Len(batches[2]) = 2
    /\ Len(batches[3]) = 1

----------------------------------------------------------------------------
(* C10 *)

====
